---- MODULE Spec2Model ----
(***************************************************************************)
(* Model of extract_translations.py: the script reads a markup file and a  *)
(* catalog file, extracts the required translation keys from the markup    *)
(* with two regular expressions, extracts per locale (en, es, pl) the keys *)
(* of the locale's block in the catalog, and prints the required keys a    *)
(* locale does not define.                                                 *)
(*                                                                         *)
(* A text is a sequence of symbols.  A symbol is a string standing for     *)
(* itself: the literals of the regular expressions ("data-translate=",     *)
(* "en", ...) are one symbol each, the other symbols are single            *)
(* characters.  No literal occurs across a symbol boundary and the symbols *)
(* form a prefix code, so matching on symbols is matching on characters    *)
(* and two keys are equal strings iff they are equal symbol sequences.     *)
(***************************************************************************)
EXTENDS Integers, Sequences, FiniteSets, TLC

VARIABLES html_content, script_content, pc,
          translate_matches, placeholder_matches, all_keys, sorted_keys,
          en_match, en_keys, missing_keys,
          es_match, es_keys, missing_es_keys,
          pl_match, pl_keys, missing_pl_keys,
          output

vars == <<html_content, script_content, pc,
          translate_matches, placeholder_matches, all_keys, sorted_keys,
          en_match, en_keys, missing_keys,
          es_match, es_keys, missing_es_keys,
          pl_match, pl_keys, missing_pl_keys,
          output>>

(***************************************************************************)
(* Symbols and character classes                                           *)
(***************************************************************************)
Quote == "\""

\* \w : the word characters (and the two-letter locale labels, made of them)
Word == {"a", "b", "en", "es", "pl"}

\* \s
Space == {" "}

Alphabet == Word \cup Space \cup
            {"data-translate=", "data-translate-placeholder=", Quote, ":", "{", "}"}

\* [^"]
NotQuote == Alphabet \ {Quote}

\* [^}]
NotClose == Alphabet \ {"}"}

\* The code points of a symbol's characters, which Python's string
\* comparison (and so sorted()) compares one by one.
CodePoints(sym) ==
    CASE sym = "a"  -> <<97>>
      [] sym = "b"  -> <<98>>
      [] sym = "en" -> <<101, 110>>
      [] sym = "es" -> <<101, 115>>
      [] sym = "pl" -> <<112, 108>>
      [] sym = " "  -> <<32>>
      [] sym = Quote -> <<34>>
      [] sym = ":"  -> <<58>>
      [] sym = "{"  -> <<123>>
      [] sym = "}"  -> <<125>>
      [] sym = "data-translate=" ->
            <<100, 97, 116, 97, 45, 116, 114, 97, 110, 115, 108, 97, 116, 101, 61>>
      [] sym = "data-translate-placeholder=" ->
            <<100, 97, 116, 97, 45, 116, 114, 97, 110, 115, 108, 97, 116, 101, 45,
              112, 108, 97, 99, 101, 104, 111, 108, 100, 101, 114, 61>>

RECURSIVE Flatten(_)
Flatten(key) ==
    IF key = <<>> THEN <<>> ELSE CodePoints(Head(key)) \o Flatten(Tail(key))

\* str.__lt__ : lexicographic by code point, a proper prefix is smaller
StrLess(k1, k2) ==
    LET u == Flatten(k1)
        v == Flatten(k2)
    IN  \E i \in 1..(Len(v)) :
            /\ i <= Len(u) + 1
            /\ \A j \in 1..(i - 1) : u[j] = v[j]
            /\ (i = Len(u) + 1 \/ u[i] < v[i])

(***************************************************************************)
(* The regular-expression engine, as far as the script's patterns use it   *)
(***************************************************************************)
\* A greedy repetition of a character class from position i: the first
\* position at or after i whose symbol is not in the class (Len(s)+1 at the end).
RECURSIVE RunEnd(_, _, _)
RunEnd(s, i, class) ==
    IF i > Len(s) \/ s[i] \notin class THEN i ELSE RunEnd(s, i + 1, class)

NoMatch == [found |-> FALSE, start |-> 0, gstart |-> 0, gend |-> 0, end |-> 0]

\* attr"([^"]+)" tried at position i.  The greedy [^"]+ stops at the first
\* quote or at the end of the text; giving characters back never helps,
\* since the character after a shorter run is not a quote.
MatchAttr(s, i, attr) ==
    LET j == RunEnd(s, i + 2, NotQuote)
    IN  IF /\ i + 1 <= Len(s)
           /\ s[i] = attr
           /\ s[i + 1] = Quote
           /\ j > i + 2
           /\ j <= Len(s)
        THEN [found |-> TRUE, start |-> i, gstart |-> i + 2, gend |-> j - 1, end |-> j]
        ELSE NoMatch

\* re.findall(attr"([^"]+)", s) from position i: the groups of the
\* non-overlapping matches, leftmost first.
RECURSIVE FindAllAttr(_, _, _)
FindAllAttr(s, i, attr) ==
    IF i > Len(s) THEN <<>>
    ELSE LET m == MatchAttr(s, i, attr)
         IN  IF m.found
             THEN <<SubSeq(s, m.gstart, m.gend)>> \o FindAllAttr(s, m.end + 1, attr)
             ELSE FindAllAttr(s, i + 1, attr)

\* label:\s*{(.+)} : the group runs to the last closing brace of the text
MatchBlockToLastClose(s, i, label) ==
    LET k == RunEnd(s, i + 2, Space)
        closes == {j \in (k + 2)..Len(s) : s[j] = "}"}
        j == CHOOSE c \in closes : \A d \in closes : d <= c
    IN  IF /\ i + 1 <= Len(s)
           /\ s[i] = label
           /\ s[i + 1] = ":"
           /\ k <= Len(s)
           /\ s[k] = "{"
           /\ closes # {}
        THEN [found |-> TRUE, start |-> i, gstart |-> k + 1, gend |-> j - 1, end |-> j]
        ELSE NoMatch

\* label:\s*{([^}]+)} tried at position i
MatchBlock(s, i, label) ==
    LET k == RunEnd(s, i + 2, Space)
        j == RunEnd(s, k + 1, NotClose)
    IN  IF /\ i + 1 <= Len(s)
           /\ s[i] = label
           /\ s[i + 1] = ":"
           /\ k <= Len(s)
           /\ s[k] = "{"
           /\ j > k + 1
           /\ j <= Len(s)
        THEN [found |-> TRUE, start |-> i, gstart |-> k + 1, gend |-> j - 1, end |-> j]
        ELSE NoMatch

\* re.search(label:\s*{([^}]+)}, s, re.DOTALL) from position i: the leftmost match
RECURSIVE SearchBlock(_, _, _)
SearchBlock(s, i, label) ==
    IF i > Len(s) THEN NoMatch
    ELSE LET m == MatchBlock(s, i, label)
         IN  IF m.found THEN m ELSE SearchBlock(s, i + 1, label)

\* re.findall(r'(?<!")(\w+):', s): a word right after a quote is no key
RECURSIVE FindAllKeysOutsideQuotes(_, _)
FindAllKeysOutsideQuotes(s, i) ==
    IF i > Len(s) THEN <<>>
    ELSE LET j == RunEnd(s, i, Word)
         IN  IF j > i /\ j <= Len(s) /\ s[j] = ":"
             THEN (IF i > 1 /\ s[i - 1] = Quote THEN <<>> ELSE <<SubSeq(s, i, j - 1)>>)
                  \o FindAllKeysOutsideQuotes(s, j + 1)
             ELSE FindAllKeysOutsideQuotes(s, i + 1)

\* re.findall(r'(\w+):', s) from position i
RECURSIVE FindAllKeys(_, _)
FindAllKeys(s, i) ==
    IF i > Len(s) THEN <<>>
    ELSE LET j == RunEnd(s, i, Word)
         IN  IF j > i /\ j <= Len(s) /\ s[j] = ":"
             THEN <<SubSeq(s, i, j - 1)>> \o FindAllKeys(s, j + 1)
             ELSE FindAllKeys(s, i + 1)

\* m.group(1)
Group1(s, m) == SubSeq(s, m.gstart, m.gend)

(***************************************************************************)
(* The script's own computations                                           *)
(***************************************************************************)
translate_pattern == "data-translate="
placeholder_pattern == "data-translate-placeholder="
en_pattern == "en"
es_pattern == "es"
pl_pattern == "pl"

\* set(list)
ToSet(list) == {list[i] : i \in 1..Len(list)}

\* key in list
InList(key, list) == \E i \in 1..Len(list) : list[i] = key

\* sorted(set, key=len): the shortest key first, equal lengths by code point
RECURSIVE ByLength(_)
ByLength(S) ==
    IF S = {} THEN <<>>
    ELSE LET first == CHOOSE k \in S :
                          \A o \in S \ {k} : Len(Flatten(o)) < Len(Flatten(k)) \/
                                                (Len(Flatten(o)) = Len(Flatten(k)) /\ StrLess(k, o))
         IN  <<first>> \o ByLength(S \ {first})

\* sorted(set): the least element first
RECURSIVE Sorted(_)
Sorted(S) ==
    IF S = {} THEN <<>>
    ELSE LET least == CHOOSE k \in S : \A o \in S \ {k} : StrLess(k, o)
         IN  <<least>> \o Sorted(S \ {least})

\* for key in sorted_keys[1:]: the first required key is never looked at
MissingLoopSkippingFirst(required, keys) ==
    IF required = <<>> THEN <<>>
    ELSE SelectSeq(Tail(required), LAMBDA key : \A i \in 1..Len(keys) : keys[i] # key)

\* for key in sorted_keys: if key not in keys: missing.append(key)
RECURSIVE MissingLoop(_, _)
MissingLoop(required, keys) ==
    IF required = <<>> THEN <<>>
    ELSE (IF ~InList(Head(required), keys) THEN <<Head(required)>> ELSE <<>>)
         \o MissingLoop(Tail(required), keys)

Line(tag, locale, n, keys) == [tag |-> tag, locale |-> locale, n |-> n, keys |-> keys]

\* the lines printed for one locale once its block is found
LocaleLines(locale, keys, missing) ==
    <<Line("found", locale, Len(keys), <<>>)>> \o
    (IF missing # <<>>
     THEN <<Line("missing", locale, Len(missing), missing)>>
     ELSE <<Line("complete", locale, 0, <<>>)>>)

(***************************************************************************)
(* Inputs                                                                  *)
(***************************************************************************)
MaxCatalogPieces == 4
MaxMarkupPieces == 6

CatalogPieces ==
    { <<"en", ":", "{">>, <<"es", ":", " ", "{">>, <<"pl", ":", "{">>,
      <<"a", ":">>, <<"b", ":">>, <<"a">>, <<"}">>, <<Quote>> }

MarkupPieces ==
    { <<"data-translate=", Quote>>, <<"data-translate-placeholder=", Quote>>,
      <<Quote>>, <<"a">>, <<"b">> }

RECURSIVE Concat(_)
Concat(pieces) ==
    IF pieces = <<>> THEN <<>> ELSE Head(pieces) \o Concat(Tail(pieces))

TextsOf(pieces, max) ==
    UNION { {Concat(p) : p \in [1..n -> pieces]} : n \in 0..max }

\* data-translate="b" data-translate-placeholder="a" data-translate="ab"
MarkupSamples ==
    { <<>>,
      <<"data-translate=", Quote, "b", Quote, "data-translate-placeholder=", Quote, "a", Quote,
        "data-translate=", Quote, "a", "b", Quote>> }

\* ""
\* en:{a:"b:"}
\* en:{a:}es: {b:ab:}pl:{ba:}
\* es: {aen:{b:}a:}en:{a:b:ab:}
\* en:{a:{b:}ab:}
CatalogSamples ==
    { <<>>,
      <<"en", ":", "{", "a", ":", Quote, "b", ":", Quote, "}">>,
      <<"en", ":", "{", "a", ":", "}", "es", ":", " ", "{", "b", ":", "a", "b", ":", "}",
        "pl", ":", "{", "b", "a", ":", "}">>,
      <<"es", ":", " ", "{", "a", "en", ":", "{", "b", ":", "}", "a", ":", "}",
        "en", ":", "{", "a", ":", "b", ":", "a", "b", ":", "}">>,
      <<"en", ":", "{", "a", ":", "{", "b", ":", "}", "a", "b", ":", "}">> }

\* en:{a:}es: {b:ab:}pl:{ba:}
\* en:{a:"b:"}
CatalogsForMarkup ==
    { <<"en", ":", "{", "a", ":", "}", "es", ":", " ", "{", "b", ":", "a", "b", ":", "}",
        "pl", ":", "{", "b", "a", ":", "}">>,
      <<"en", ":", "{", "a", ":", Quote, "b", ":", Quote, "}">> }

Init0 ==
    /\ pc = "extract"
    /\ translate_matches = <<>>
    /\ placeholder_matches = <<>>
    /\ all_keys = {}
    /\ sorted_keys = <<>>
    /\ en_match = NoMatch /\ en_keys = <<>> /\ missing_keys = <<>>
    /\ es_match = NoMatch /\ es_keys = <<>> /\ missing_es_keys = <<>>
    /\ pl_match = NoMatch /\ pl_keys = <<>> /\ missing_pl_keys = <<>>
    /\ output = <<>>

\* the catalog ranges over the texts built of catalog pieces
Init ==
    /\ html_content \in MarkupSamples
    /\ script_content \in TextsOf(CatalogPieces, MaxCatalogPieces) \cup CatalogSamples
    /\ Init0

\* the markup ranges over the texts built of markup pieces
InitMarkup ==
    /\ html_content \in TextsOf(MarkupPieces, MaxMarkupPieces) \cup MarkupSamples
    /\ script_content \in CatalogsForMarkup
    /\ Init0

(***************************************************************************)
(* The script, one action per section                                      *)
(***************************************************************************)
ExtractKeys ==
    /\ pc = "extract"
    /\ translate_matches' = FindAllAttr(html_content, 1, translate_pattern)
    /\ placeholder_matches' = FindAllAttr(html_content, 1, placeholder_pattern)
    /\ all_keys' = ToSet(translate_matches' \o placeholder_matches')
    /\ sorted_keys' = Sorted(all_keys')
    /\ output' = output \o <<Line("keys", "", Len(sorted_keys'), sorted_keys')>>
    /\ pc' = "en"
    /\ UNCHANGED <<html_content, script_content,
                   en_match, en_keys, missing_keys,
                   es_match, es_keys, missing_es_keys,
                   pl_match, pl_keys, missing_pl_keys>>

CheckEn ==
    /\ pc = "en"
    /\ en_match' = SearchBlock(script_content, 1, en_pattern)
    /\ IF en_match'.found
       THEN /\ en_keys' = FindAllKeys(Group1(script_content, en_match'), 1)
            /\ missing_keys' = MissingLoop(sorted_keys, en_keys')
            /\ output' = output \o LocaleLines("en", en_keys', missing_keys')
       ELSE UNCHANGED <<en_keys, missing_keys, output>>
    /\ pc' = "es"
    /\ UNCHANGED <<html_content, script_content,
                   translate_matches, placeholder_matches, all_keys, sorted_keys,
                   es_match, es_keys, missing_es_keys,
                   pl_match, pl_keys, missing_pl_keys>>

CheckEs ==
    /\ pc = "es"
    /\ es_match' = SearchBlock(script_content, 1, es_pattern)
    /\ IF es_match'.found
       THEN /\ es_keys' = FindAllKeys(Group1(script_content, es_match'), 1)
            /\ missing_es_keys' = MissingLoop(sorted_keys, es_keys')
            /\ output' = output \o LocaleLines("es", es_keys', missing_es_keys')
       ELSE UNCHANGED <<es_keys, missing_es_keys, output>>
    /\ pc' = "pl"
    /\ UNCHANGED <<html_content, script_content,
                   translate_matches, placeholder_matches, all_keys, sorted_keys,
                   en_match, en_keys, missing_keys,
                   pl_match, pl_keys, missing_pl_keys>>

CheckPl ==
    /\ pc = "pl"
    /\ pl_match' = SearchBlock(script_content, 1, pl_pattern)
    /\ IF pl_match'.found
       THEN /\ pl_keys' = FindAllKeys(Group1(script_content, pl_match'), 1)
            /\ missing_pl_keys' = MissingLoop(sorted_keys, pl_keys')
            /\ output' = output \o LocaleLines("pl", pl_keys', missing_pl_keys')
       ELSE UNCHANGED <<pl_keys, missing_pl_keys, output>>
    /\ pc' = "done"
    /\ UNCHANGED <<html_content, script_content,
                   translate_matches, placeholder_matches, all_keys, sorted_keys,
                   en_match, en_keys, missing_keys,
                   es_match, es_keys, missing_es_keys>>

Next == ExtractKeys \/ CheckEn \/ CheckEs \/ CheckPl

Spec == Init /\ [][Next]_vars

SpecMarkup == InitMarkup /\ [][Next]_vars

(***************************************************************************)
(* What the properties speak of                                            *)
(***************************************************************************)
Locales == {"en", "es", "pl"}

Match(L) == CASE L = "en" -> en_match [] L = "es" -> es_match [] L = "pl" -> pl_match
Keys(L) == CASE L = "en" -> en_keys [] L = "es" -> es_keys [] L = "pl" -> pl_keys
Missing(L) ==
    CASE L = "en" -> missing_keys [] L = "es" -> missing_es_keys [] L = "pl" -> missing_pl_keys

\* the printed lines of a kind about a locale
Lines(L, tag) == {i \in 1..Len(output) : output[i].locale = L /\ output[i].tag = tag}

\* the locale is printed as lacking exactly the keys of the sequence ks
ReportsMissing(L, ks) ==
    IF ks = <<>>
    THEN Lines(L, "complete") # {} /\ Lines(L, "missing") = {}
    ELSE /\ Lines(L, "complete") = {}
         /\ Lines(L, "missing") # {}
         /\ \A i \in Lines(L, "missing") : output[i].keys = ks /\ output[i].n = Len(ks)

\* the positions p..q of s that hold a maximal run of word characters
\* followed by a colon
IsKeyAt(s, p, q) ==
    /\ 1 <= p /\ p <= q /\ q < Len(s)
    /\ \A i \in p..q : s[i] \in Word
    /\ (p = 1 \/ s[p - 1] \notin Word)
    /\ s[q + 1] = ":"

\* the keys of s that start at one of the positions ps
KeysAt(s, ps) ==
    {SubSeq(s, p, q) : <<p, q>> \in {pq \in ps \X (1..Len(s)) : IsKeyAt(s, pq[1], pq[2])}}

SortedStrictly(ks) == \A i \in 1..(Len(ks) - 1) : StrLess(ks[i], ks[i + 1])

\* ks is got from rs by dropping elements
RECURSIVE IsSubsequence(_, _)
IsSubsequence(ks, rs) ==
    IF ks = <<>> THEN TRUE
    ELSE IF rs = <<>> THEN FALSE
    ELSE IF Head(ks) = Head(rs) THEN IsSubsequence(Tail(ks), Tail(rs))
    ELSE IsSubsequence(ks, Tail(rs))

(***************************************************************************)
(* C1: for every locale whose block is found, the keys printed as missing  *)
(* are exactly the required keys that are not among the keys extracted     *)
(* from the locale's block (so they are all required keys).                *)
(***************************************************************************)
C1_MissingIsDifference ==
    \A L \in Locales :
        Match(L).found =>
            /\ ToSet(Missing(L)) = all_keys \ ToSet(Keys(L))
            /\ ToSet(Missing(L)) \subseteq all_keys
            /\ ReportsMissing(L, Missing(L))

C1_Witness ==
    \E L \in Locales :
        /\ Match(L).found
        /\ Missing(L) # <<>>
        /\ all_keys \cap ToSet(Keys(L)) # {}
        /\ ToSet(Keys(L)) \ all_keys # {}

(***************************************************************************)
(* C2: when a locale's block is not found, the run still prints a result   *)
(* for the locale: zero defined keys, and every required key missing.      *)
(***************************************************************************)
C2_AbsentLocaleAllMissing ==
    pc = "done" =>
        \A L \in Locales :
            ~Match(L).found =>
                /\ \E i \in Lines(L, "found") : output[i].n = 0
                /\ ReportsMissing(L, sorted_keys)

(***************************************************************************)
(* C3: the keys extracted for a locale come only from a block introduced   *)
(* by the locale's own label, the label being a whole identifier and not   *)
(* the end of a longer one.                                                *)
(***************************************************************************)
\* the positions of the opening braces that follow the label L standing alone
OwnBlockOpenings(s, L) ==
    {k \in 1..Len(s) :
        /\ s[k] = "{"
        /\ \E i \in 1..(k - 2) :
              /\ s[i] = L /\ s[i + 1] = ":"
              /\ (i = 1 \/ s[i - 1] \notin Word)
              /\ \A j \in (i + 2)..(k - 1) : s[j] \in Space}

C3_OnlyOwnBlock ==
    \A L \in Locales :
        Match(L).found =>
            \A key \in ToSet(Keys(L)) :
                \E k \in OwnBlockOpenings(script_content, L) :
                    key \in KeysAt(script_content, (k + 1)..Len(script_content))

(***************************************************************************)
(* C4: with no required key, every locale is printed as complete, whether  *)
(* or not the catalog has a block for it.                                  *)
(***************************************************************************)
C4_EmptyRequiredAllComplete ==
    (pc = "done" /\ all_keys = {}) =>
        \A L \in Locales : ReportsMissing(L, <<>>)

(***************************************************************************)
(* C5: an attribute whose value is empty or whose opening quote has no     *)
(* closing quote of its own contributes no required key; the text from an  *)
(* unterminated opening quote to the opening quote of a later attribute is *)
(* not a key.                                                              *)
(***************************************************************************)
Attributes == {translate_pattern, placeholder_pattern}

\* the values of the attributes of the set attrs that are well-formed: the
\* first quote after the opening one closes a non-empty value and is not
\* the opening quote of another attribute
WellFormedValues(s, attrs) ==
    {SubSeq(s, pq[1] + 2, pq[2] - 1) :
        pq \in {x \in (1..Len(s)) \X (1..Len(s)) :
                   /\ s[x[1]] \in attrs
                   /\ x[1] + 1 <= Len(s) /\ s[x[1] + 1] = Quote
                   /\ x[2] > x[1] + 2
                   /\ s[x[2]] = Quote
                   /\ \A j \in (x[1] + 2)..(x[2] - 1) : s[j] # Quote
                   /\ s[x[2] - 1] \notin Attributes}}

C5_MalformedYieldsNoKey ==
    pc # "extract" => all_keys \subseteq WellFormedValues(html_content, Attributes)

(***************************************************************************)
(* C6: the required keys are exactly the values of the well-formed         *)
(* data-translate and data-translate-placeholder attributes, each once,    *)
(* and the printed total is the number of distinct keys.                   *)
(***************************************************************************)
C6_RequiredIsUnionOfValues ==
    pc # "extract" =>
        /\ all_keys = WellFormedValues(html_content, {translate_pattern})
                      \cup WellFormedValues(html_content, {placeholder_pattern})
        /\ Len(sorted_keys) = Cardinality(all_keys)
        /\ \E i \in Lines("", "keys") : output[i].n = Cardinality(all_keys)

(***************************************************************************)
(* C7: the scanned region of a locale's block is the text between the      *)
(* opening brace after the label and the first closing brace after it; a   *)
(* key that occurs only after that closing brace is not a defined key and  *)
(* is printed as missing if it is required.                                *)
(***************************************************************************)
FirstCloseAfter(s, k) ==
    CHOOSE j \in (k + 1)..Len(s) : s[j] = "}" /\ \A i \in (k + 1)..(j - 1) : s[i] # "}"

C7_ScanEndsAtFirstClose ==
    \A L \in Locales :
        Match(L).found =>
            LET open == Match(L).gstart - 1
                close == FirstCloseAfter(script_content, open)
                inside == KeysAt(script_content, (open + 1)..(close - 1))
            IN  /\ script_content[open] = "{"
                /\ Match(L).gend = close - 1
                /\ ToSet(Keys(L)) \subseteq inside
                /\ \A key \in all_keys \ inside : InList(key, Missing(L))

C7_Witness ==
    \E L \in Locales :
        /\ Match(L).found
        /\ \E i \in Match(L).gstart..Match(L).gend : script_content[i] = "{"
        /\ \E key \in KeysAt(script_content, (Match(L).gend + 2)..Len(script_content)) :
              /\ key \in all_keys
              /\ ~InList(key, Keys(L))
              /\ InList(key, Missing(L))

(***************************************************************************)
(* C8: the missing list of a locale is a subsequence of the sorted         *)
(* sequence of the required keys: strictly increasing, in the order of the *)
(* sorted required keys.                                                   *)
(***************************************************************************)
C8_MissingSortedSubsequence ==
    /\ SortedStrictly(sorted_keys)
    /\ \A L \in Locales :
          Match(L).found =>
              /\ SortedStrictly(Missing(L))
              /\ IsSubsequence(Missing(L), sorted_keys)
              /\ ReportsMissing(L, Missing(L))

C8_Witness ==
    \E L \in Locales :
        /\ Match(L).found
        /\ Len(Missing(L)) >= 2
        /\ Len(Missing(L)) < Len(sorted_keys)
        /\ \E i \in 1..Len(translate_matches) :
              \E j \in 1..Len(placeholder_matches) :
                  StrLess(placeholder_matches[j], translate_matches[i])

(***************************************************************************)
(* C9: the defined count printed for a locale is the number of distinct    *)
(* keys of the locale's block.                                             *)
(***************************************************************************)
C9_DefinedCountIsDistinct ==
    \A L \in Locales :
        Match(L).found =>
            \A i \in Lines(L, "found") : output[i].n = Cardinality(ToSet(Keys(L)))

(***************************************************************************)
(* C10: every maximal run of word characters followed by a colon in the    *)
(* scanned block is a defined key, also inside a value, and a required key *)
(* equal to it is not printed as missing.                                  *)
(***************************************************************************)
C10_EveryColonWordIsKey ==
    \A L \in Locales :
        Match(L).found =>
            LET content == Group1(script_content, Match(L))
            IN  \A key \in KeysAt(content, 1..Len(content)) :
                    /\ InList(key, Keys(L))
                    /\ ~InList(key, Missing(L))
                    /\ \A i \in Lines(L, "missing") : ~InList(key, output[i].keys)

C10_Witness ==
    \E L \in Locales :
        /\ Match(L).found
        /\ LET content == Group1(script_content, Match(L))
           IN  \E p \in 2..Len(content) :
                   /\ content[p - 1] = Quote
                   /\ \E key \in KeysAt(content, {p}) :
                         key \in all_keys /\ ~InList(key, Missing(L))
        /\ Missing(L) # <<>>

====
